---------------------------- MODULE Spec2Model ----------------------------
(***************************************************************************)
(* Client-side session and data-synchronisation layer of the Nutrietary    *)
(* meal-planning client: AuthProvider (session store), Login form,         *)
(* ProtectedRoute (route guard), the Generate view (preference resolver    *)
(* and generation request) and the MealPlans view (collection manager).    *)
(*                                                                         *)
(* Conventions.  An optional value (null or a value) is a sequence of      *)
(* length 0 or 1.  A JavaScript value is a record [t, v] with t its type   *)
(* tag.  A string is the sequence of its lexemes (words, "," and " "), so   *)
(* the empty string is <<>> and split(',') really splits.                  *)
(***************************************************************************)
EXTENDS Integers, Sequences, FiniteSets, TLC

VARIABLES
    storage,      \* localStorage['nutrietary_token']: <<>> or <<token>>
    user,         \* AuthProvider.user: <<>> (null) or <<[id, username]>>
    loading,      \* AuthProvider.loading
    ctxToken,     \* AuthContext value.token as read at the last AuthProvider render
    boot,         \* position of the bootstrap effect: "effect" | "verifying" | "resolved"
    verifyReq,    \* the GET /me request in flight: <<>> or <<token>>
    verifyCount,  \* GET /me requests issued since the process started
    authReqs,     \* the POST /login and /register requests in flight
    authResult,   \* what the last login()/register() call returned: <<>> or <<result>>
    isLogin,      \* Login.isLogin
    formLoading,  \* Login.loading
    formError,    \* Login.error
    screen,       \* what ProtectedRoute renders: "spinner" | "login" | "children"
    route,        \* the current route of the router
    genLoading,   \* Generate.loading
    genPrefs,     \* Generate.preferences (a JavaScript value)
    generating,   \* Generate.generating
    genMessage,   \* Generate.message.type
    overrides,    \* Generate.overrides
    reqs,         \* authenticated requests in flight
    redirects,    \* pending setTimeout(navigate('/meal-plans')) callbacks
    settings,     \* Generate.currentSettings as of the last render of the view
    plans,        \* MealPlans.plans: the ids of the displayed plans, in order
    plansLoading, \* MealPlans.loading
    page,         \* MealPlans.page
    total,        \* MealPlans.total
    expandedPlan, \* MealPlans.expandedPlan: <<>> or <<id>>
    deletingPlan, \* MealPlans.deletingPlan: <<>> or <<id>>
    showDeleteModal, \* MealPlans.showDeleteModal
    planToDelete, \* MealPlans.planToDelete: <<>> or <<id of the plan>>
    fetches,      \* the GET /mealplans requests in flight
    deletes,      \* the DELETE /mealplans/:id requests in flight
    shownFor,     \* the page whose response filled plans and total: <<>> or <<page>>
    logged,       \* whether the MealPlans step that ran last called console.error
    deleted,      \* the plans the server is seen to have deleted: <<>> while the
                  \* server is not observed, else <<set of ids>>
    cardPlan,     \* the plan a MealPlanCard is given: its plan and grocery_list
    cardExpanded, \* isExpanded of that card
    cardView,     \* what the card's last render produced
    prefLoading,  \* Preferences.loading
    prefSaving,   \* Preferences.saving
    prefMessage,  \* Preferences.message.type
    prefValues,   \* Preferences.preferences: the five fields (JavaScript values)
    prefReqs,     \* the GET and PUT /preferences requests of the view in flight
    lastEvent     \* the handler or continuation that ran last, and the answer it saw

sessionVars == <<storage, user, loading, ctxToken, boot, verifyReq, verifyCount>>
loginVars   == <<authReqs, authResult, isLogin, formLoading, formError>>
genVars     == <<genLoading, genPrefs, generating, genMessage, overrides, settings>>
planVars    == <<plans, plansLoading, page, total, expandedPlan, deletingPlan,
                 showDeleteModal, planToDelete, fetches, deletes, shownFor, logged,
                 deleted>>
clientVars  == <<sessionVars, loginVars, screen, route, genVars, reqs, redirects>>
cardVars    == <<cardPlan, cardExpanded, cardView>>
prefVars    == <<prefLoading, prefSaving, prefMessage, prefValues, prefReqs>>
vars == <<clientVars, planVars, cardVars, prefVars, lastEvent>>

-----------------------------------------------------------------------------
(* Bounds of the model *)

NumTokens == 2
NumIds == 2
MaxRedirects == 1

Tokens == 1..NumTokens
Ids == 1..NumIds
Usernames == {"alice", "bob"}

None == <<>>
Some(x) == <<x>>

-----------------------------------------------------------------------------
(* JavaScript values *)

Str(s) == [t |-> "str", v |-> s]
Num(n) == [t |-> "num", v |-> <<n>>]
Null == [t |-> "null", v |-> <<>>]
Obj(o) == [t |-> "obj", v |-> <<o>>]
Arr(a) == [t |-> "arr", v |-> a]
Undef == [t |-> "undef", v |-> <<>>]
NaN == [t |-> "nan", v |-> <<>>]
EmptyStr == Str(<<>>)

\* JavaScript truthiness: "", 0 and null are falsy
Truthy(x) ==
    CASE x.t = "str" -> x.v # <<>>
      [] x.t = "num" -> x.v # <<0>>
      [] x.t = "obj" -> TRUE
      [] x.t = "arr" -> TRUE
      [] OTHER -> FALSE

\* a || b
JsOr(a, b) == IF Truthy(a) THEN a ELSE b

-----------------------------------------------------------------------------
(* The server, a black box: what one request may be answered with *)

NetErr == [status |-> 0, json |-> FALSE]
HttpAnswers == [status : {200, 401, 500}, json : BOOLEAN]
Answers == HttpAnswers \cup {NetErr}

\* response.ok
ResponseOk(a) == a.status >= 200 /\ a.status <= 299

\* the status line of an answer, as the handlers' events record it
StatusText(a) ==
    CASE a.status = 200 -> "200"
      [] a.status = 401 -> "401"
      [] OTHER -> "500"

\* data is the body the continuation read, where it sets state from it
Event(op, outcome, data) == [op |-> op, status |-> outcome, data |-> data]
UserEvent(op) == [op |-> op, status |-> "-", data |-> None]


-----------------------------------------------------------------------------
(* Preference Resolver: Generate.getCurrentSettings and its helpers *)

\* String.prototype.split(sep) on a non-empty-or-empty lexeme string: the
\* pieces between separators; "".split(",") is [""]
RECURSIVE SplitFrom(_, _, _)
SplitFrom(s, sep, cur) ==
    IF s = <<>> THEN <<cur>>
    ELSE IF Head(s) = sep THEN <<cur>> \o SplitFrom(Tail(s), sep, <<>>)
    ELSE SplitFrom(Tail(s), sep, Append(cur, Head(s)))

Split(s, sep) == SplitFrom(s, sep, <<>>)

\* String.prototype.trim(): drop the leading and the trailing blanks
RECURSIVE TrimLeft(_)
TrimLeft(s) == IF s # <<>> /\ Head(s) = " " THEN TrimLeft(Tail(s)) ELSE s

RECURSIVE TrimRight(_)
TrimRight(s) ==
    IF s # <<>> /\ s[Len(s)] = " " THEN TrimRight(SubSeq(s, 1, Len(s) - 1)) ELSE s

Trim(s) == TrimRight(TrimLeft(s))

\* Array.prototype.filter(t => t.trim())
RECURSIVE FilterTrimmed(_)
FilterTrimmed(ps) ==
    IF ps = <<>> THEN <<>>
    ELSE IF Trim(Head(ps)) # <<>> THEN <<Head(ps)>> \o FilterTrimmed(Tail(ps))
    ELSE FilterTrimmed(Tail(ps))

\* Generate.jsx:16-24, the initial overrides
InitialOverrides ==
    [days |-> EmptyStr,
     preferences |-> [dietary_preferences |-> EmptyStr,
                      budget |-> EmptyStr,
                      meal_types |-> EmptyStr,
                      custom_preferences |-> EmptyStr]]

PrefKeys == {"dietary_preferences", "budget", "meal_types", "custom_preferences"}

DefaultDays == 3

\* Generate.getCurrentSettings: null when there are no preferences, else the
\* settings object
getCurrentSettings(preferences, o) ==
    IF ~Truthy(preferences) THEN None
    ELSE LET p == preferences.v[1] IN
         Some([dietary |-> JsOr(JsOr(o.preferences.dietary_preferences,
                                     p.dietary_preferences), Str(<<"Not set">>)),
               budget |-> JsOr(JsOr(o.preferences.budget, p.budget),
                               Str(<<"No limit">>)),
               days |-> JsOr(JsOr(o.days, p.days), Num(DefaultDays)),
               mealTypes |-> FilterTrimmed(Split(
                                 JsOr(JsOr(o.preferences.meal_types, p.meal_types),
                                      EmptyStr).v, ",")),
               custom |-> JsOr(JsOr(o.preferences.custom_preferences,
                                    p.custom_preferences), EmptyStr)])

\* parseInt on a one-digit string
DigitValue(d) ==
    CASE d = "1" -> 1 [] d = "2" -> 2 [] d = "3" -> 3 [] d = "4" -> 4
      [] d = "5" -> 5 [] d = "6" -> 6 [] d = "7" -> 7 [] OTHER -> 0

Digits == {"1", "2", "3", "4", "5", "6", "7"}

parseInt(x) ==
    IF x.t = "str" /\ TrimLeft(x.v) # <<>> /\ Head(TrimLeft(x.v)) \in Digits
    THEN Num(DigitValue(Head(TrimLeft(x.v))))
    ELSE [t |-> "nan", v |-> <<>>]

\* handleGenerate without the test of line 65: every preference key is sent
prefOverrides_sendsAll(o) ==
    [k \in PrefKeys |-> o.preferences[k]]

\* Generate.handleGenerate, lines 55-72: the body of POST /generate_mealplan
prefOverrides(o) ==
    [k \in {key \in PrefKeys : Truthy(o.preferences[key])} |-> o.preferences[k]]

RequestBody(o) ==
    [days |-> IF Truthy(o.days) THEN Some(parseInt(o.days)) ELSE None,
     preferences |-> IF DOMAIN prefOverrides(o) # {} THEN Some(prefOverrides(o))
                     ELSE None]

NoBody == [days |-> None, preferences |-> None]

-----------------------------------------------------------------------------
(* Route guard and view mounting *)

Routes == {"home", "preferences", "generate", "mealplans"}

\* ProtectedRoute without its loading branch (lines 665-671 dropped)
ProtectedRoute_ignoresLoading(u, l) ==
    IF u = None THEN "login" ELSE "children"

\* ProtectedRoute: what is rendered for the session state (user, loading)
ProtectedRoute(u, l) ==
    IF l THEN "spinner"
    ELSE IF u = None THEN "login"
    ELSE "children"

GenMounted == screen = "children" /\ route = "generate"

SetGen(l, p, g, m, o) ==
    /\ genLoading' = l
    /\ genPrefs' = p
    /\ generating' = g
    /\ genMessage' = m
    /\ overrides' = o
    /\ settings' = getCurrentSettings(p, o)

\* Generate.jsx:11-24, the state of a freshly mounted (or of no) Generate view
ResetGen == SetGen(TRUE, Null, FALSE, "", InitialOverrides)

\* Generate.fetchPreferences, the request it issues
PrefsRequest(tok) == [kind |-> "prefs", token |-> tok, live |-> TRUE, body |-> NoBody]

\* the requests of an unmounted view go on, their continuations no longer
\* reach a mounted component; what was sent is no longer of interest
Orphaned(rs) ==
    {[kind |-> r.kind, token |-> None, live |-> FALSE, body |-> NoBody] : r \in rs}

\* After the session or the route changed: the Generate view mounts (and its
\* effect fetches the preferences), unmounts, or stays
Remount(s, r, tok, base) ==
    LET now == s = "children" /\ r = "generate" IN
    IF now /\ ~GenMounted
    THEN ResetGen /\ reqs' = Orphaned(base) \cup {PrefsRequest(tok)}
    ELSE IF ~now /\ GenMounted
    THEN ResetGen /\ reqs' = Orphaned(base)
    ELSE UNCHANGED genVars /\ reqs' = base

\* the Login form's state when it mounts (Preferences.jsx:463-467)
ResetLogin ==
    /\ isLogin' = TRUE
    /\ formLoading' = FALSE
    /\ formError' = ""

\* part_000:282-290, the state of a freshly mounted (or of no) MealPlans
\* view, with the requests fs in flight
PlansStateAt(fs, d) ==
    /\ deleted = d
    /\ plans = <<>>
    /\ plansLoading = TRUE
    /\ page = 1
    /\ total = 0
    /\ expandedPlan = None
    /\ deletingPlan = None
    /\ showDeleteModal = FALSE
    /\ planToDelete = None
    /\ fetches = fs
    /\ deletes = {}
    /\ shownFor = None
    /\ logged = FALSE

PlansState(fs) == PlansStateAt(fs, None)

\* no card has been rendered
NotRendered == [body |-> "none", stats |-> None, days |-> <<>>, grocery |-> None]

\* no MealPlanCard is rendered
NoCard ==
    /\ cardPlan = [plan |-> Null, grocery_list |-> Null]
    /\ cardExpanded = FALSE
    /\ cardView = NotRendered

\* Preferences.jsx:14-20, the preferences of a freshly mounted view
DefaultPreferences ==
    [dietary_preferences |-> EmptyStr,
     budget |-> EmptyStr,
     days |-> Num(3),
     meal_types |-> Str(<<"breakfast", ",", "lunch", ",", "dinner">>),
     custom_preferences |-> EmptyStr]

\* Preferences.jsx:9-20, the state of a freshly mounted (or of no)
\* Preferences view, with the requests rs in flight
PreferencesState(rs) ==
    /\ prefLoading = TRUE
    /\ prefSaving = FALSE
    /\ prefMessage = ""
    /\ prefValues = DefaultPreferences
    /\ prefReqs = rs

-----------------------------------------------------------------------------
(* Session Store: AuthProvider *)

Init ==
    /\ storage = None
    /\ user = None
    /\ loading = TRUE
    /\ ctxToken = None
    /\ boot = "effect"
    /\ verifyReq = None
    /\ verifyCount = 0
    /\ authReqs = {}
    /\ authResult = None
    /\ isLogin = TRUE
    /\ formLoading = FALSE
    /\ formError = ""
    /\ screen = "spinner"
    /\ route = "home"
    /\ genLoading = TRUE
    /\ genPrefs = Null
    /\ generating = FALSE
    /\ genMessage = ""
    /\ overrides = InitialOverrides
    /\ settings = None
    /\ reqs = {}
    /\ redirects = 0
    /\ PlansState({})
    /\ NoCard
    /\ PreferencesState({})
    /\ lastEvent = UserEvent("start")

\* The page is loaded again: everything in memory is lost, localStorage and
\* the location stay (AuthProvider's useState initialisers, lines 359-360)
Restart ==
    /\ user' = None
    /\ loading' = TRUE
    /\ ctxToken' = storage
    /\ boot' = "effect"
    /\ verifyReq' = None
    /\ verifyCount' = 0
    /\ authReqs' = {}
    /\ authResult' = None
    /\ ResetLogin
    /\ screen' = ProtectedRoute(None, TRUE)
    /\ ResetGen
    /\ reqs' = {}
    /\ redirects' = 0
    /\ UNCHANGED <<planVars, cardVars, prefVars>>
    /\ lastEvent' = UserEvent("restart")
    /\ UNCHANGED <<storage, route>>

\* the mount effect calling verifyToken whatever localStorage holds
BootstrapEffect_alwaysVerifies ==
    /\ boot = "effect"
    /\ verifyReq' = storage
    /\ verifyCount' = verifyCount + 1
    /\ boot' = "verifying"
    /\ UNCHANGED <<loading, ctxToken>>
    /\ screen' = ProtectedRoute(user, loading')
    /\ UNCHANGED <<planVars, cardVars, prefVars>>
    /\ lastEvent' = UserEvent("bootstrap")
    /\ Remount(screen', route, ctxToken', reqs)
    /\ UNCHANGED <<storage, user, authReqs, authResult, isLogin, formLoading,
                   formError, route, redirects>>

\* AuthProvider's mount effect, lines 362-369
BootstrapEffect ==
    /\ boot = "effect"
    /\ IF storage # None
       THEN /\ verifyReq' = storage
            /\ verifyCount' = verifyCount + 1
            /\ boot' = "verifying"
            /\ UNCHANGED <<loading, ctxToken>>
       ELSE /\ loading' = FALSE
            /\ ctxToken' = storage
            /\ boot' = "resolved"
            /\ UNCHANGED <<verifyReq, verifyCount>>
    /\ screen' = ProtectedRoute(user, loading')
    /\ UNCHANGED <<planVars, cardVars, prefVars>>
    /\ lastEvent' = UserEvent("bootstrap")
    /\ Remount(screen', route, ctxToken', reqs)
    /\ UNCHANGED <<storage, user, authReqs, authResult, isLogin, formLoading,
                   formError, route, redirects>>

\* what every branch of verifyToken ends with: finally setLoading(false), and
\* the re-render of AuthProvider and of the route guard
VerifyResolved(outcome, data) ==
    /\ loading' = FALSE
    /\ boot' = "resolved"
    /\ verifyReq' = None
    /\ ctxToken' = storage'
    /\ screen' = ProtectedRoute(user', loading')
    /\ UNCHANGED <<planVars, cardVars, prefVars>>
    /\ lastEvent' = Event("verify", outcome, data)
    /\ Remount(screen', route, ctxToken', reqs)
    /\ UNCHANGED <<verifyCount, authReqs, authResult, isLogin, formLoading,
                   formError, route, redirects>>

\* verifyToken whose success branch forgets setUser
VerifyOk_noSetUser(a, userData) ==
    /\ boot = "verifying" /\ verifyReq # None
    /\ ResponseOk(a) /\ a.json
    /\ UNCHANGED <<user, storage>>
    /\ VerifyResolved(StatusText(a), Some(userData))

\* verifyToken that removes the token in its finally block
VerifyOk_removesToken(a, userData) ==
    /\ boot = "verifying" /\ verifyReq # None
    /\ ResponseOk(a) /\ a.json
    /\ user' = Some(userData)
    /\ storage' = None
    /\ VerifyResolved(StatusText(a), Some(userData))

\* verifyToken, lines 378-380: GET /me answered 2xx with a JSON body
VerifyOk(a, userData) ==
    /\ boot = "verifying" /\ verifyReq # None
    /\ ResponseOk(a) /\ a.json
    /\ user' = Some(userData)
    /\ UNCHANGED storage
    /\ VerifyResolved(StatusText(a), Some(userData))

\* verifyToken whose else branch forgets removeItem
VerifyRejected_keepsToken(a) ==
    /\ boot = "verifying" /\ verifyReq # None
    /\ a # NetErr /\ ~ResponseOk(a)
    /\ UNCHANGED <<storage, user>>
    /\ VerifyResolved(StatusText(a), None)

\* verifyToken, lines 381-383: GET /me answered non-2xx
VerifyRejected(a) ==
    /\ boot = "verifying" /\ verifyReq # None
    /\ a # NetErr /\ ~ResponseOk(a)
    /\ storage' = None
    /\ UNCHANGED user
    /\ VerifyResolved(StatusText(a), None)

\* verifyToken whose catch block forgets removeItem
VerifyThrows_keepsToken(a) ==
    /\ boot = "verifying" /\ verifyReq # None
    /\ a = NetErr \/ (ResponseOk(a) /\ ~a.json)
    /\ UNCHANGED <<storage, user>>
    /\ VerifyResolved("threw", None)

\* verifyToken, lines 384-386: fetch or response.json() threw
VerifyThrows(a) ==
    /\ boot = "verifying" /\ verifyReq # None
    /\ a = NetErr \/ (ResponseOk(a) /\ ~a.json)
    /\ storage' = None
    /\ UNCHANGED user
    /\ VerifyResolved("threw", None)

\* handleSubmit behind a submit button that is never disabled
handleSubmit_ignoresLoading(username) ==
    /\ screen = "login"
    /\ formLoading' = TRUE
    /\ formError' = ""
    /\ authReqs' = authReqs \cup
           {[kind |-> IF isLogin THEN "login" ELSE "register",
             username |-> username, live |-> TRUE]}
    /\ UNCHANGED <<planVars, cardVars, prefVars>>
    /\ lastEvent' = UserEvent("submit")
    /\ UNCHANGED <<sessionVars, authResult, isLogin, screen, route, genVars, reqs,
                   redirects>>

\* Login.handleSubmit up to the await, lines 470-477, with login/register up
\* to their fetch
handleSubmit(username) ==
    /\ screen = "login"
    /\ ~formLoading
    /\ formLoading' = TRUE
    /\ formError' = ""
    /\ authReqs' = authReqs \cup
           {[kind |-> IF isLogin THEN "login" ELSE "register",
             username |-> username, live |-> TRUE]}
    /\ UNCHANGED <<planVars, cardVars, prefVars>>
    /\ lastEvent' = UserEvent("submit")
    /\ UNCHANGED <<sessionVars, authResult, isLogin, screen, route, genVars, reqs,
                   redirects>>

\* the Login/Register switch of the form, lines 496-511
setIsLogin(b) ==
    /\ screen = "login"
    /\ b # isLogin
    /\ isLogin' = b
    /\ UNCHANGED <<planVars, cardVars, prefVars>>
    /\ lastEvent' = UserEvent("setIsLogin")
    /\ UNCHANGED <<sessionVars, authReqs, authResult, formLoading, formError,
                   screen, route, genVars, reqs, redirects>>

NetworkErrorText == "Network error"
Undefined == "undefined"
ServerErrors == {"Invalid credentials", Undefined}

\* the rest of Login.handleSubmit (lines 479-482) once login/register returned
\* result; a Login form that is no longer mounted is not touched
SubmitContinues(r, result) ==
    /\ authResult' = Some(result)
    /\ authReqs' = IF screen' = "login" THEN authReqs \ {r}
                   ELSE {[q EXCEPT !.live = FALSE] : q \in authReqs \ {r}}
    /\ IF r.live /\ screen' = "login"
       THEN /\ formError' = IF ~result.success THEN result.error ELSE formError
            /\ formLoading' = FALSE
            /\ UNCHANGED isLogin
       ELSE ResetLogin

\* login / register that set the identity and forget localStorage.setItem
AuthOk_noPersist(r, a, data) ==
    /\ ResponseOk(a) /\ a.json
    /\ UNCHANGED storage
    /\ user' = Some([id |-> data.user_id, username |-> data.username])
    /\ ctxToken' = storage'
    /\ screen' = ProtectedRoute(user', loading)
    /\ SubmitContinues(r, [success |-> TRUE])
    /\ UNCHANGED <<planVars, cardVars, prefVars>>
    /\ lastEvent' = Event(r.kind, StatusText(a), Some(data))
    /\ Remount(screen', route, ctxToken', reqs)
    /\ UNCHANGED <<loading, boot, verifyReq, verifyCount, route, redirects>>

\* login / register, lines 403-406 and 427-430: answered 2xx with a JSON body
AuthOk(r, a, data) ==
    /\ ResponseOk(a) /\ a.json
    /\ storage' = Some(data.token)
    /\ user' = Some([id |-> data.user_id, username |-> data.username])
    /\ ctxToken' = storage'
    /\ screen' = ProtectedRoute(user', loading)
    /\ SubmitContinues(r, [success |-> TRUE])
    /\ UNCHANGED <<planVars, cardVars, prefVars>>
    /\ lastEvent' = Event(r.kind, StatusText(a), Some(data))
    /\ Remount(screen', route, ctxToken', reqs)
    /\ UNCHANGED <<loading, boot, verifyReq, verifyCount, route, redirects>>

\* login / register that store the body's token before looking at response.ok
AuthRejected_persists(r, a, error) ==
    /\ ~ResponseOk(a) /\ a.json
    /\ \E t \in Tokens : storage' = Some(t)
    /\ UNCHANGED <<user, loading, ctxToken, boot, verifyReq, verifyCount, screen>>
    /\ SubmitContinues(r, [success |-> FALSE, error |-> error])
    /\ UNCHANGED <<planVars, cardVars, prefVars>>
    /\ lastEvent' = Event(r.kind, StatusText(a), None)
    /\ UNCHANGED <<route, genVars, reqs, redirects>>

\* login / register, lines 407-409 and 431-433: answered non-2xx with a JSON body
AuthRejected(r, a, error) ==
    /\ ~ResponseOk(a) /\ a.json
    /\ UNCHANGED <<sessionVars, screen>>
    /\ SubmitContinues(r, [success |-> FALSE, error |-> error])
    /\ UNCHANGED <<planVars, cardVars, prefVars>>
    /\ lastEvent' = Event(r.kind, StatusText(a), None)
    /\ UNCHANGED <<route, genVars, reqs, redirects>>

\* login / register, lines 411-413 and 435-437: fetch or response.json() threw
AuthThrows(r, a) ==
    /\ ~a.json
    /\ UNCHANGED <<sessionVars, screen>>
    /\ SubmitContinues(r, [success |-> FALSE, error |-> NetworkErrorText])
    /\ UNCHANGED <<planVars, cardVars, prefVars>>
    /\ lastEvent' = Event(r.kind, "threw", None)
    /\ UNCHANGED <<route, genVars, reqs, redirects>>

AuthData == [token : Tokens, user_id : Ids, username : Usernames]
UserData == [id : Ids, username : Usernames]

login(a) ==
    \E r \in authReqs :
        /\ r.kind = "login"
        /\ \/ \E data \in AuthData : AuthOk(r, a, data)
           \/ \E e \in ServerErrors : AuthRejected(r, a, e)
           \/ AuthThrows(r, a)

register(a) ==
    \E r \in authReqs :
        /\ r.kind = "register"
        /\ \/ \E data \in AuthData : AuthOk(r, a, data)
           \/ \E e \in ServerErrors : AuthRejected(r, a, e)
           \/ AuthThrows(r, a)

\* logout that clears the identity and forgets removeItem
logout_keepsToken ==
    /\ screen = "children"
    /\ UNCHANGED storage
    /\ user' = None
    /\ ctxToken' = storage'
    /\ route' = "home"
    /\ screen' = ProtectedRoute(user', loading)
    /\ ResetLogin
    /\ UNCHANGED <<planVars, cardVars, prefVars>>
    /\ lastEvent' = UserEvent("logout")
    /\ Remount(screen', route', ctxToken', reqs)
    /\ UNCHANGED <<loading, boot, verifyReq, verifyCount, authReqs, authResult,
                   redirects>>

\* logout that removes the token and forgets setUser(null)
logout_keepsUser ==
    /\ screen = "children"
    /\ storage' = None
    /\ UNCHANGED user
    /\ ctxToken' = storage'
    /\ route' = "home"
    /\ screen' = ProtectedRoute(user', loading)
    /\ ResetLogin
    /\ UNCHANGED <<planVars, cardVars, prefVars>>
    /\ lastEvent' = UserEvent("logout")
    /\ Remount(screen', route', ctxToken', reqs)
    /\ UNCHANGED <<loading, boot, verifyReq, verifyCount, authReqs, authResult,
                   redirects>>

\* Navigation.handleLogout (lines 569-572) with AuthProvider.logout (440-443)
logout ==
    /\ screen = "children"
    /\ storage' = None
    /\ user' = None
    /\ ctxToken' = storage'
    /\ route' = "home"
    /\ screen' = ProtectedRoute(user', loading)
    /\ ResetLogin
    /\ UNCHANGED <<planVars, cardVars, prefVars>>
    /\ lastEvent' = UserEvent("logout")
    /\ Remount(screen', route', ctxToken', reqs)
    /\ UNCHANGED <<loading, boot, verifyReq, verifyCount, authReqs, authResult,
                   redirects>>

\* a navigation link (lines 574-601)
Navigate(r) ==
    /\ screen = "children"
    /\ r # route
    /\ route' = r
    /\ UNCHANGED <<planVars, cardVars, prefVars>>
    /\ lastEvent' = UserEvent("navigate")
    /\ Remount(screen, route', ctxToken, reqs)
    /\ UNCHANGED <<sessionVars, loginVars, screen, redirects>>

-----------------------------------------------------------------------------
(* Generate view *)

\* the preferences objects GET /preferences may carry
Prefs(dietary, budget, days, mealTypes, custom) ==
    Obj([dietary_preferences |-> dietary, budget |-> budget, days |-> days,
         meal_types |-> mealTypes, custom_preferences |-> custom])

ThreeMeals == Str(<<"breakfast", ",", "lunch", ",", "dinner">>)

SavedSmall ==
    {Null,
     Prefs(Str(<<"Vegan">>), Str(<<"50">>), Num(5), ThreeMeals, EmptyStr),
     Prefs(EmptyStr, EmptyStr, Num(0), EmptyStr, EmptyStr)}

\* what fetchPreferences and handleGenerate end with when their view is gone:
\* the request is over and no component state is touched
Dropped(r) ==
    /\ reqs' = reqs \ {r}
    /\ UNCHANGED genVars

\* fetchPreferences, lines 38-41 and 45: answered 2xx with a JSON body
PrefsOk(r, a, data) ==
    /\ ResponseOk(a) /\ a.json
    /\ IF r.live
       THEN /\ SetGen(FALSE, data, generating, genMessage, overrides)
            /\ reqs' = reqs \ {r}
       ELSE Dropped(r)

\* fetchPreferences, lines 42-45: non-2xx (no branch), or fetch or
\* response.json() threw (logged)
PrefsFailed(r, a) ==
    /\ ~(ResponseOk(a) /\ a.json)
    /\ IF r.live
       THEN /\ SetGen(FALSE, genPrefs, generating, genMessage, overrides)
            /\ reqs' = reqs \ {r}
       ELSE Dropped(r)

\* fetchPreferences from its await on, the body's preferences one of saved
fetchPreferencesOf(a, saved) ==
    \E r \in reqs :
        /\ r.kind = "prefs"
        /\ \/ \E data \in saved : PrefsOk(r, a, data)
           \/ PrefsFailed(r, a)
        /\ UNCHANGED <<planVars, cardVars, prefVars>>
        /\ lastEvent' = Event("prefs", IF a.json THEN StatusText(a) ELSE "threw", None)
        /\ UNCHANGED <<sessionVars, loginVars, screen, route, redirects>>

fetchPreferences(a) == fetchPreferencesOf(a, SavedSmall)

\* the override form's onChange handlers, lines 237-316
setOverrides(o) ==
    /\ GenMounted /\ ~genLoading
    /\ o # overrides
    /\ SetGen(genLoading, genPrefs, generating, genMessage, o)
    /\ UNCHANGED <<planVars, cardVars, prefVars>>
    /\ lastEvent' = UserEvent("setOverrides")
    /\ UNCHANGED <<sessionVars, loginVars, screen, route, reqs, redirects>>

setDays(v) == setOverrides([overrides EXCEPT !.days = v])
setDietary(v) == setOverrides([overrides EXCEPT !.preferences.dietary_preferences = v])
setBudget(v) == setOverrides([overrides EXCEPT !.preferences.budget = v])
setCustom(v) == setOverrides([overrides EXCEPT !.preferences.custom_preferences = v])

\* handleGenerate sending no Authorization credential
handleGenerate_noCredential ==
    /\ GenMounted /\ ~genLoading
    /\ ~generating /\ Truthy(genPrefs)
    /\ SetGen(genLoading, genPrefs, TRUE, "", overrides)
    /\ reqs' = reqs \cup {[kind |-> "generate", token |-> None, live |-> TRUE,
                           body |-> RequestBody(overrides)]}
    /\ UNCHANGED <<planVars, cardVars, prefVars>>
    /\ lastEvent' = UserEvent("generate")
    /\ UNCHANGED <<sessionVars, loginVars, screen, route, redirects>>

\* handleGenerate up to its await, lines 49-81; the button is disabled while
\* generating or without preferences (line 323)
handleGenerate ==
    /\ GenMounted /\ ~genLoading
    /\ ~generating /\ Truthy(genPrefs)
    /\ SetGen(genLoading, genPrefs, TRUE, "", overrides)
    /\ reqs' = reqs \cup {[kind |-> "generate", token |-> ctxToken, live |-> TRUE,
                           body |-> RequestBody(overrides)]}
    /\ UNCHANGED <<planVars, cardVars, prefVars>>
    /\ lastEvent' = UserEvent("generate")
    /\ UNCHANGED <<sessionVars, loginVars, screen, route, redirects>>

\* handleGenerate, lines 85-94 and 102: answered 2xx with a JSON body
GenerateOk(r, a) ==
    /\ ResponseOk(a) /\ a.json
    /\ redirects < MaxRedirects
    /\ redirects' = redirects + 1
    /\ IF r.live
       THEN /\ SetGen(genLoading, genPrefs, FALSE, "success", overrides)
            /\ reqs' = reqs \ {r}
       ELSE Dropped(r)

\* handleGenerate, lines 95-102: answered non-2xx with a JSON body, or fetch or
\* response.json() threw
GenerateFailed(r, a) ==
    /\ ~(ResponseOk(a) /\ a.json)
    /\ UNCHANGED redirects
    /\ IF r.live
       THEN /\ SetGen(genLoading, genPrefs, FALSE, "error", overrides)
            /\ reqs' = reqs \ {r}
       ELSE Dropped(r)

generateAnswered(a) ==
    \E r \in reqs :
        /\ r.kind = "generate"
        /\ GenerateOk(r, a) \/ GenerateFailed(r, a)
        /\ UNCHANGED <<planVars, cardVars, prefVars>>
        /\ lastEvent' = Event("generateAnswered",
                               IF a.json THEN StatusText(a) ELSE "threw", None)
        /\ UNCHANGED <<sessionVars, loginVars, screen, route>>

\* the callback of setTimeout, lines 92-94: navigate('/meal-plans')
RedirectFires ==
    /\ redirects > 0
    /\ redirects' = redirects - 1
    /\ route' = "mealplans"
    /\ UNCHANGED <<planVars, cardVars, prefVars>>
    /\ lastEvent' = UserEvent("redirect")
    /\ Remount(screen, route', ctxToken, reqs)
    /\ UNCHANGED <<sessionVars, loginVars, screen>>

-----------------------------------------------------------------------------
(* The client: session store, login form, route guard and Generate view *)

DayInputs == {EmptyStr, Str(<<"5">>)}

Next ==
    \/ Restart
    \/ BootstrapEffect
    \/ \E a \in Answers, d \in UserData : VerifyOk(a, d)
    \/ \E a \in Answers : VerifyRejected(a)
    \/ \E a \in Answers : VerifyThrows(a)
    \/ \E u \in Usernames : handleSubmit(u)
    \/ \E b \in BOOLEAN : setIsLogin(b)
    \/ \E a \in Answers : login(a)
    \/ \E a \in Answers : register(a)
    \/ logout
    \/ \E r \in Routes : Navigate(r)
    \/ \E a \in Answers : fetchPreferences(a)
    \/ \E v \in DayInputs : setDays(v)
    \/ handleGenerate
    \/ \E a \in Answers : generateAnswered(a)
    \/ RedirectFires

Spec == Init /\ [][Next]_vars

-----------------------------------------------------------------------------
(* Session Store and Route Guard: properties *)

AuthOps == {"login", "register"}
AuthenticatedOps == {"prefs", "generateAnswered"}

\* C1: when the startup verification (GET /me) of a persisted credential is
\* answered non-2xx or fails, then as bootstrap resolves the persisted
\* credential is removed and the identity is absent.
C1_BootstrapFailureClearsSession ==
    [][(boot = "verifying" /\ lastEvent'.op = "verify" /\ lastEvent'.status # "200")
        => (/\ boot' = "resolved" /\ ~loading'
            /\ storage' = None
            /\ user' = None
            /\ screen' = "login")]_vars

C1_Witness ==
    /\ lastEvent.op = "verify" /\ lastEvent.status \in {"401", "500", "threw"}
    /\ boot = "resolved"
    /\ storage = None /\ user = None

\* C2: when the startup verification succeeds, the identity is the
\* {id, username} of the response and the persisted credential is the one
\* that was verified, untouched.
C2_BootstrapSuccessKeepsCredential ==
    [][(boot = "verifying" /\ lastEvent'.op = "verify" /\ lastEvent'.status = "200")
        => (/\ boot' = "resolved" /\ ~loading'
            /\ user' = Some([id |-> lastEvent'.data[1].id,
                             username |-> lastEvent'.data[1].username])
            /\ storage' = storage
            /\ storage' = verifyReq
            /\ storage' # None)]_vars

C2_Witness ==
    /\ lastEvent.op = "verify" /\ lastEvent.status = "200"
    /\ user = lastEvent.data /\ storage # None

\* C3: a protected view is rendered only once bootstrap has resolved and an
\* identity is present; while bootstrap is unresolved the spinner is shown
\* (neither the view nor the login form), and with no identity the login form.
C3_RouteGuard ==
    /\ screen = "children" => (~loading /\ user # None)
    /\ loading => screen = "spinner"
    /\ (~loading /\ user = None) => screen = "login"
    /\ (GenMounted \/ \E r \in reqs : r.live) => (~loading /\ user # None)
    /\ (formLoading \/ \E r \in authReqs : r.live) => (~loading /\ user = None)

C3_Witness ==
    /\ GenMounted /\ ~genLoading
    /\ lastEvent.op = "prefs"

\* C4: a login or register answered 2xx with {token, user_id, username}
\* persists that token, makes {id: user_id, username} the identity and
\* returns a success result.
C4_AuthSuccess ==
    [][(lastEvent'.op \in AuthOps /\ lastEvent'.status = "200")
        => (/\ storage' = Some(lastEvent'.data[1].token)
            /\ user' = Some([id |-> lastEvent'.data[1].user_id,
                             username |-> lastEvent'.data[1].username])
            /\ authResult' # None /\ authResult'[1].success)]_vars

C4_Witness ==
    /\ lastEvent.op = "register" /\ lastEvent.status = "200"
    /\ storage # None /\ user # None /\ screen = "children"

\* C5: a login or register answered non-2xx, or failing at the network
\* level, returns {success: false, error} in both cases and leaves the
\* persisted credential and the identity as they were.
C5_AuthFailure ==
    [][(lastEvent'.op \in AuthOps /\ lastEvent'.status # "200")
        => (/\ storage' = storage
            /\ user' = user
            /\ authResult' # None
            /\ DOMAIN authResult'[1] = {"success", "error"}
            /\ ~authResult'[1].success)]_vars

C5_Witness ==
    /\ lastEvent.op \in AuthOps /\ lastEvent.status = "threw"
    /\ authResult = Some([success |-> FALSE, error |-> NetworkErrorText])
    /\ screen = "login" /\ formError = NetworkErrorText

\* C6: logout clears the persisted credential and the identity in one step
\* and issues no request; afterwards the session is unauthenticated, and an
\* identity appears again only by a login or register answered 2xx.
C6_Logout ==
    [][/\ lastEvent'.op = "logout"
          => (/\ storage' = None /\ user' = None
              /\ screen' = "login"
              /\ verifyReq' = verifyReq /\ authReqs' = authReqs
              /\ \A r \in reqs' : ~r.live
              /\ Cardinality(reqs') <= Cardinality(reqs))
       /\ (boot = "resolved" /\ boot' = "resolved" /\ user = None /\ user' # None)
          => (lastEvent'.op \in AuthOps /\ lastEvent'.status = "200")]_vars

C6_Witness ==
    /\ lastEvent.op = "logout"
    /\ storage = None /\ user = None /\ screen = "login"

\* C7: once bootstrap has resolved, a persisted credential implies an
\* identity.
C7_CredentialImpliesIdentity ==
    (boot = "resolved" /\ storage # None) => user # None

C7_Witness ==
    /\ boot = "resolved" /\ storage # None /\ user # None
    /\ lastEvent.op = "verify"

\* C8 as stated: a persisted credential changes only by logout.
C8_OnlyLogoutChangesCredential ==
    [][(storage # None /\ storage' # storage) => lastEvent'.op = "logout"]_vars

\* C8, amended: a persisted credential is never replaced by another value,
\* and it is removed only by logout or by a startup verification of it that
\* is answered non-2xx or fails.
C8_CredentialImmutable ==
    [][(storage # None /\ storage' # storage)
        => (/\ storage' = None
            /\ \/ lastEvent'.op = "logout"
               \/ lastEvent'.op = "verify" /\ lastEvent'.status # "200")]_vars

C8_Witness ==
    /\ storage # None
    /\ lastEvent.op \in AuthenticatedOps /\ lastEvent.status \in {"401", "threw"}

\* C9: whenever an authenticated request is rejected because the token is
\* expired or invalid (401), the session returns to the unauthenticated
\* state.
C9_AuthErrorClearsSession ==
    [][(lastEvent'.op \in AuthenticatedOps /\ lastEvent'.status = "401")
        => (storage' = None /\ user' = None)]_vars

-----------------------------------------------------------------------------
(* Preference Resolver: the Generate view, signed in and just mounted *)

\* what GET /preferences may carry for each field: a value, the empty string,
\* zero, or null
SavedAll ==
    {Null} \cup
    {Prefs(d, b, n, m, c) :
        d \in {EmptyStr, Null, Str(<<"Vegan">>)},
        b \in {EmptyStr, Str(<<"50">>)},
        n \in {Num(0), Null, Num(5)},
        m \in {EmptyStr, Null, ThreeMeals, Str(<<"lunch", ",", " ", ",", "snack">>)},
        c \in {EmptyStr, Str(<<"No nuts">>)}}

DietaryInputs == {EmptyStr, Str(<<"Keto">>), Str(<<" ">>)}
BudgetInputs == {EmptyStr, Str(<<"80">>)}
CustomInputs == {EmptyStr, Str(<<"Quick meals">>)}

InitResolve ==
    /\ storage = Some(1)
    /\ user = Some([id |-> 1, username |-> "alice"])
    /\ loading = FALSE
    /\ ctxToken = storage
    /\ boot = "resolved"
    /\ verifyReq = None
    /\ verifyCount = 0
    /\ authReqs = {}
    /\ authResult = Some([success |-> TRUE])
    /\ isLogin = TRUE
    /\ formLoading = FALSE
    /\ formError = ""
    /\ screen = ProtectedRoute(user, loading)
    /\ route = "generate"
    /\ genLoading = TRUE
    /\ genPrefs = Null
    /\ generating = FALSE
    /\ genMessage = ""
    /\ overrides = InitialOverrides
    /\ settings = getCurrentSettings(genPrefs, overrides)
    /\ reqs = {PrefsRequest(ctxToken)}
    /\ redirects = 0
    /\ PlansState({})
    /\ NoCard
    /\ PreferencesState({})
    /\ lastEvent = UserEvent("navigate")

NextResolve ==
    \/ \E a \in Answers : fetchPreferencesOf(a, SavedAll)
    \/ \E v \in DayInputs : setDays(v)
    \/ \E v \in DietaryInputs : setDietary(v)
    \/ \E v \in BudgetInputs : setBudget(v)
    \/ \E v \in CustomInputs : setCustom(v)

SpecResolve == InitResolve /\ [][NextResolve]_vars

\* the value the resolution rule picks: the override if set, else the saved
\* value if set, else the default
Resolved(o, p, default) ==
    IF Truthy(o) THEN o ELSE IF Truthy(p) THEN p ELSE default

\* C10: every field of the effective settings is the override if that is
\* non-empty, else the saved value if that is non-empty, else the documented
\* default of the field (dietary "Not set", budget "No limit", days 3, meal
\* types "breakfast,lunch,dinner", custom empty).
C10_ResolutionRule ==
    settings # None =>
        LET s == settings[1]
            p == genPrefs.v[1]
            o == overrides.preferences
        IN  /\ s.dietary = Resolved(o.dietary_preferences, p.dietary_preferences,
                                    Str(<<"Not set">>))
            /\ s.budget = Resolved(o.budget, p.budget, Str(<<"No limit">>))
            /\ s.days = Resolved(overrides.days, p.days, Num(3))
            /\ s.mealTypes = FilterTrimmed(Split(
                   Resolved(o.meal_types, p.meal_types, ThreeMeals).v, ","))
            /\ s.custom = Resolved(o.custom_preferences, p.custom_preferences,
                                   EmptyStr)

\* C12: when saved preferences are present, the effective settings always
\* carry a non-empty list of meal types and a non-empty number of days, also
\* when the saved fields are empty, zero or null.
C12_RequiredFieldsNeverEmpty ==
    Truthy(genPrefs) =>
        /\ settings # None
        /\ settings[1].mealTypes # <<>>
        /\ Truthy(settings[1].days)

\* what the resolution rule's defaults alone give
DefaultSettings ==
    [dietary |-> Str(<<"Not set">>),
     budget |-> Str(<<"No limit">>),
     days |-> Num(3),
     mealTypes |-> <<<<"breakfast">>, <<"lunch">>, <<"dinner">>>>,
     custom |-> EmptyStr]

\* C13: when no saved preferences are there at all (none stored, or the fetch
\* failed) and no override is set, resolving still produces a settings object,
\* made of the defaults: days 3, meal types breakfast, lunch, dinner, budget
\* "No limit", dietary "Not set".
C13_AbsentSavedYieldsDefaults ==
    (lastEvent.op = "prefs" /\ ~Truthy(genPrefs) /\ overrides = InitialOverrides)
        => settings = Some(DefaultSettings)

-----------------------------------------------------------------------------
(* Generation request: the Generate view, signed in, from its mount to the *)
(* redirect                                                                *)

NextGenerate ==
    \/ \E a \in Answers : fetchPreferences(a)
    \/ \E v \in DayInputs : setDays(v)
    \/ \E v \in DietaryInputs : setDietary(v)
    \/ \E v \in BudgetInputs : setBudget(v)
    \/ \E v \in CustomInputs : setCustom(v)
    \/ handleGenerate
    \/ \E a \in Answers : generateAnswered(a)
    \/ RedirectFires

SpecGenerate == InitResolve /\ [][NextGenerate]_vars

\* C11: the body of a generation request has a field exactly for each
\* override that is set: days (as a number) iff the days override is
\* non-empty, each preference key iff that preference override is non-empty
\* and with its value, no preferences key at all when no preference override
\* is set; overrides {days: "5"} alone give exactly {days: 5}.
C11_PayloadCarriesExactlyTheOverrides ==
    [][lastEvent'.op = "generate" =>
        \E r \in reqs' \ reqs :
            LET b == r.body
                o == overrides
                set == {k \in PrefKeys : o.preferences[k] # EmptyStr}
            IN  /\ r.kind = "generate"
                /\ b.days # None <=> o.days # EmptyStr
                /\ b.days # None => b.days[1] = Num(DigitValue(o.days.v[1]))
                /\ b.preferences # None <=> set # {}
                /\ b.preferences # None =>
                       /\ DOMAIN b.preferences[1] = set
                       /\ \A k \in set : b.preferences[1][k] = o.preferences[k]
                /\ o = [InitialOverrides EXCEPT !.days = Str(<<"5">>)]
                       => b = [days |-> Some(Num(5)), preferences |-> None]]_vars

C11_Witness ==
    /\ lastEvent.op = "generate"
    /\ overrides = [InitialOverrides EXCEPT !.days = Str(<<"5">>)]
    /\ \E r \in reqs :
           /\ r.kind = "generate" /\ r.live
           /\ r.body = [days |-> Some(Num(5)), preferences |-> None]

-----------------------------------------------------------------------------
(* Meal-Plan Collection Manager: the MealPlans view *)

NumPlans == 2
MaxItems == 2
MaxPage == 2

PlanIds == 1..NumPlans

\* part_000:286
PerPage == 10

\* part_000:378, Math.ceil(total / perPage)
TotalPages(t) == (t + PerPage - 1) \div PerPage

\* the plans one page of GET /mealplans may list: distinct plans, the newest
\* (the greatest id) first
PageLists ==
    {l \in UNION {[1..n -> PlanIds] : n \in 0..MaxItems} :
        \A i, j \in DOMAIN l : i < j => l[i] > l[j]}

\* the totals GET /mealplans may report: no plan, two pages, three pages
Totals == {0, 11, 23}

\* the JSON bodies of GET /mealplans: {} or {plans, total}
PageBodies ==
    {[plans |-> None, total |-> None]} \cup
    {[plans |-> Some(b[1]), total |-> Some(b[2])] :
        b \in {c \in PageLists \X Totals : c[2] >= Len(c[1])}}

\* the plans the server has deleted, as far as it is observed
Deleted == IF deleted = None THEN {} ELSE deleted[1]

\* fetchPlans up to its await, lines 296-302: the request for page q, issued
\* when the server has deleted the plans d; the server answers it from its
\* plans at some later moment, so none of d is in the answer
PlansRequestAt(q, d) == [page |-> q, token |-> ctxToken, without |-> d]

PlansRequest(q) == PlansRequestAt(q, Deleted)

\* DeleteModal renders (line 382); its overlay covers the cards and the
\* pagination (line 385)
ModalOpen == showDeleteModal /\ planToDelete # None

\* the cards and the pagination are rendered and can be clicked
ListShown == ~plansLoading /\ ~ModalOpen

Displayed == {plans[i] : i \in DOMAIN plans}

\* what every MealPlans step leaves alone; a DELETE answered 2xx has deleted
\* the plan on the server
PlansFrame(op, status, data, log) ==
    /\ logged' = log
    /\ deleted' = IF deleted # None /\ op = "deletePlan" /\ status = "200"
                  THEN Some(Deleted \cup {data[1]}) ELSE deleted
    /\ lastEvent' = Event(op, status, data)
    /\ UNCHANGED <<clientVars, cardVars, prefVars>>

\* fetchPlans, lines 304-308 and 312: answered 2xx with a JSON body
FetchOk(r, a, body) ==
    /\ ResponseOk(a) /\ a.json
    /\ body.plans # None =>
           \A i \in DOMAIN body.plans[1] : body.plans[1][i] \notin r.without
    /\ plans' = IF body.plans # None THEN body.plans[1] ELSE <<>>
    /\ total' = IF body.total # None THEN body.total[1] ELSE 0
    /\ shownFor' = Some(r.page)
    /\ PlansFrame("fetchPlans", "200", Some([page |-> r.page, body |-> body]), FALSE)

\* fetchPlans, lines 304 and 312: answered non-2xx; no branch is taken
FetchNotOk(r, a) ==
    /\ a # NetErr /\ ~ResponseOk(a)
    /\ UNCHANGED <<plans, total, shownFor>>
    /\ PlansFrame("fetchPlans", StatusText(a), None, FALSE)

\* fetchPlans, lines 309-312: fetch or response.json() threw
FetchThrows(r, a) ==
    /\ a = NetErr \/ (ResponseOk(a) /\ ~a.json)
    /\ UNCHANGED <<plans, total, shownFor>>
    /\ PlansFrame("fetchPlans", "threw", None, TRUE)

\* fetchPlans from its await on
fetchPlans(a) ==
    \E r \in fetches :
        /\ \/ \E body \in PageBodies : FetchOk(r, a, body)
           \/ FetchNotOk(r, a)
           \/ FetchThrows(r, a)
        /\ plansLoading' = FALSE
        /\ fetches' = fetches \ {r}
        /\ UNCHANGED <<page, expandedPlan, deletingPlan, showDeleteModal,
                       planToDelete, deletes>>

\* setPage(q) and the effect on [page], lines 292-294: a changed page is
\* fetched
setPage(q) ==
    /\ q # page
    /\ page' = q
    /\ fetches' = fetches \cup {PlansRequest(q)}

\* the pagination is rendered under the list when there is more than one
\* page, lines 683-690
PaginationShown == ListShown /\ plans # <<>> /\ TotalPages(total) > 1

UserStep(op) == PlansFrame(op, "-", None, FALSE)

\* Previous, lines 692-695
PreviousPage ==
    /\ PaginationShown
    /\ page # 1
    /\ setPage(page - 1)
    /\ UserStep("previousPage")
    /\ UNCHANGED <<plans, plansLoading, total, expandedPlan, deletingPlan,
                   showDeleteModal, planToDelete, deletes, shownFor>>

\* the page-number buttons, lines 701-716
PageNumber(pageNum) ==
    /\ PaginationShown
    /\ pageNum \in 1..(IF TotalPages(total) < 5 THEN TotalPages(total) ELSE 5)
    /\ pageNum <= MaxPage
    /\ setPage(pageNum)
    /\ UserStep("pageNumber")
    /\ UNCHANGED <<plans, plansLoading, total, expandedPlan, deletingPlan,
                   showDeleteModal, planToDelete, deletes, shownFor>>

\* Next, lines 719-722
NextPage ==
    /\ PaginationShown
    /\ page # TotalPages(total)
    /\ page < MaxPage
    /\ setPage(page + 1)
    /\ UserStep("nextPage")
    /\ UNCHANGED <<plans, plansLoading, total, expandedPlan, deletingPlan,
                   showDeleteModal, planToDelete, deletes, shownFor>>

\* togglePlanExpansion that never collapses
togglePlanExpansion_alwaysExpands(planId) ==
    /\ ListShown
    /\ planId \in Displayed
    /\ expandedPlan' = Some(planId)
    /\ PlansFrame("togglePlanExpansion", "-", Some(planId), FALSE)
    /\ UNCHANGED <<plans, plansLoading, page, total, deletingPlan,
                   showDeleteModal, planToDelete, fetches, deletes, shownFor>>

\* togglePlanExpansion, lines 374-376, from a card's button (474-480)
togglePlanExpansion(planId) ==
    /\ ListShown
    /\ planId \in Displayed
    /\ expandedPlan' = IF expandedPlan = Some(planId) THEN None ELSE Some(planId)
    /\ PlansFrame("togglePlanExpansion", "-", Some(planId), FALSE)
    /\ UNCHANGED <<plans, plansLoading, page, total, deletingPlan,
                   showDeleteModal, planToDelete, fetches, deletes, shownFor>>

\* openDeleteModal, lines 354-357, from a card's button (462-465)
openDeleteModal(plan) ==
    /\ ListShown
    /\ plan \in Displayed
    /\ deletingPlan # Some(plan)
    /\ planToDelete' = Some(plan)
    /\ showDeleteModal' = TRUE
    /\ UserStep("openDeleteModal")
    /\ UNCHANGED <<plans, plansLoading, page, total, expandedPlan, deletingPlan,
                   fetches, deletes, shownFor>>

\* closeDeleteModal behind a Cancel button that is never disabled
closeDeleteModal_whileDeleting ==
    /\ ModalOpen
    /\ showDeleteModal' = FALSE
    /\ planToDelete' = None
    /\ UserStep("closeDeleteModal")
    /\ UNCHANGED <<plans, plansLoading, page, total, expandedPlan, deletingPlan,
                   fetches, deletes, shownFor>>

\* closeDeleteModal, lines 359-362, from the dialog's Cancel (410-413)
closeDeleteModal ==
    /\ ModalOpen
    /\ deletingPlan # planToDelete
    /\ showDeleteModal' = FALSE
    /\ planToDelete' = None
    /\ UserStep("closeDeleteModal")
    /\ UNCHANGED <<plans, plansLoading, page, total, expandedPlan, deletingPlan,
                   fetches, deletes, shownFor>>

\* handleDeletePlan without the dialog: any displayed plan, at once
handleDeletePlan_unconfirmed ==
    /\ ListShown
    /\ \E planId \in Displayed :
        /\ deletingPlan' = Some(planId)
        /\ deletes' = deletes \cup {[planId |-> planId, len |-> Len(plans),
                                      page |-> page, expanded |-> expandedPlan,
                                      token |-> ctxToken]}
    /\ UserStep("handleDeletePlan")
    /\ UNCHANGED <<plans, plansLoading, page, total, expandedPlan,
                   showDeleteModal, planToDelete, fetches, shownFor>>

\* handleDeletePlan up to its await, lines 316-325, from the dialog's Delete
\* (417-420); the continuation keeps the plans, page and expandedPlan of the
\* render the click happened in
handleDeletePlan ==
    /\ ModalOpen
    /\ deletingPlan # planToDelete
    /\ deletingPlan' = planToDelete
    /\ deletes' = deletes \cup {[planId |-> planToDelete[1], len |-> Len(plans),
                                  page |-> page, expanded |-> expandedPlan,
                                  token |-> ctxToken]}
    /\ UserStep("handleDeletePlan")
    /\ UNCHANGED <<plans, plansLoading, page, total, expandedPlan,
                   showDeleteModal, planToDelete, fetches, shownFor>>

\* handleDeletePlan whose finally block leaves the dialog open
DeleteFinally_keepsModal ==
    /\ deletingPlan' = None
    /\ UNCHANGED <<showDeleteModal, planToDelete>>

\* handleDeletePlan, lines 347-351
DeleteFinally ==
    /\ deletingPlan' = None
    /\ showDeleteModal' = FALSE
    /\ planToDelete' = None

\* DeleteOk that leaves the expansion as it is (lines 333-335 dropped)
DeleteOk_keepsExpanded(r, a) ==
    /\ ResponseOk(a)
    /\ plans' = SelectSeq(plans, LAMBDA id : id # r.planId)
    /\ total' = total - 1
    /\ expandedPlan' = expandedPlan
    /\ IF r.len = 1 /\ r.page > 1 /\ r.page - 1 # page
       THEN /\ page' = r.page - 1
            /\ fetches' = fetches \cup
                   {PlansRequestAt(r.page - 1,
                       IF deleted = None THEN {} ELSE Deleted \cup {r.planId})}
       ELSE /\ page' = IF r.len = 1 /\ r.page > 1 THEN r.page - 1 ELSE page
            /\ UNCHANGED fetches
    /\ PlansFrame("deletePlan", "200", Some(r.planId), FALSE)

\* handleDeletePlan, lines 327-340: answered 2xx
DeleteOk(r, a) ==
    /\ ResponseOk(a)
    /\ plans' = SelectSeq(plans, LAMBDA id : id # r.planId)
    /\ total' = total - 1
    /\ expandedPlan' = IF r.expanded = Some(r.planId) THEN None ELSE expandedPlan
    /\ IF r.len = 1 /\ r.page > 1 /\ r.page - 1 # page
       THEN /\ page' = r.page - 1
            /\ fetches' = fetches \cup
                   {PlansRequestAt(r.page - 1,
                       IF deleted = None THEN {} ELSE Deleted \cup {r.planId})}
       ELSE /\ page' = IF r.len = 1 /\ r.page > 1 THEN r.page - 1 ELSE page
            /\ UNCHANGED fetches
    /\ PlansFrame("deletePlan", "200", Some(r.planId), FALSE)

\* handleDeletePlan that removes the plan locally although the server refused
DeleteFailed_removesAnyway(r, a) ==
    /\ ~ResponseOk(a)
    /\ plans' = SelectSeq(plans, LAMBDA id : id # r.planId)
    /\ total' = total - 1
    /\ UNCHANGED <<expandedPlan, page, fetches>>
    /\ PlansFrame("deletePlan", IF a.json THEN StatusText(a) ELSE "threw",
                  Some(r.planId), TRUE)

\* handleDeletePlan, lines 341-346: answered non-2xx (the body is read, the
\* error logged), or fetch threw (logged)
DeleteFailed(r, a) ==
    /\ ~ResponseOk(a)
    /\ UNCHANGED <<plans, total, expandedPlan, page, fetches>>
    /\ PlansFrame("deletePlan", IF a.json THEN StatusText(a) ELSE "threw",
                  Some(r.planId), TRUE)

\* handleDeletePlan from its await on
deletePlanAnswered(a) ==
    \E r \in deletes :
        /\ DeleteOk(r, a) \/ DeleteFailed(r, a)
        /\ DeleteFinally
        /\ deletes' = deletes \ {r}
        /\ UNCHANGED <<plansLoading, shownFor>>

\* the MealPlans view, signed in and just mounted: its effect has issued the
\* fetch of page 1; d says whether the server's deletions are observed
MealPlansMounted(d) ==
    /\ storage = Some(1)
    /\ user = Some([id |-> 1, username |-> "alice"])
    /\ loading = FALSE
    /\ ctxToken = storage
    /\ boot = "resolved"
    /\ verifyReq = None
    /\ verifyCount = 0
    /\ authReqs = {}
    /\ authResult = Some([success |-> TRUE])
    /\ isLogin = TRUE
    /\ formLoading = FALSE
    /\ formError = ""
    /\ screen = ProtectedRoute(user, loading)
    /\ route = "mealplans"
    /\ genLoading = TRUE
    /\ genPrefs = Null
    /\ generating = FALSE
    /\ genMessage = ""
    /\ overrides = InitialOverrides
    /\ settings = None
    /\ reqs = {}
    /\ redirects = 0
    /\ PlansStateAt({PlansRequestAt(1, {})}, d)
    /\ NoCard
    /\ PreferencesState({})
    /\ lastEvent = UserEvent("navigate")

InitPlans == MealPlansMounted(None)

NextPlans ==
    \/ \E a \in Answers : fetchPlans(a)
    \/ PreviousPage
    \/ \E n \in 1..5 : PageNumber(n)
    \/ NextPage
    \/ \E id \in PlanIds : togglePlanExpansion(id)
    \/ \E id \in PlanIds : openDeleteModal(id)
    \/ closeDeleteModal
    \/ handleDeletePlan
    \/ \E a \in Answers : deletePlanAnswered(a)

SpecPlans == InitPlans /\ [][NextPlans]_vars

-----------------------------------------------------------------------------
(* Meal-Plan Collection Manager: properties *)

\* C14: from a trigger (the initial mount or a change of the page number)
\* until the fetch it issued resolves, the collection manager is loading: a
\* fetch is outstanding only while the loading state is shown.
C14_LoadingWhileFetchOutstanding ==
    fetches # {} => plansLoading

\* C15: a page fetch answered 2xx with a body replaces the items and the
\* total by the body's plans and total; one answered non-2xx or failing
\* leaves items, total, page and expanded plan as they were, surfaces an
\* error and issues no new request.
C15_FetchOutcome ==
    [][lastEvent'.op = "fetchPlans" =>
        IF lastEvent'.status = "200"
        THEN LET body == lastEvent'.data[1].body
             IN  /\ plans' = IF body.plans # None THEN body.plans[1] ELSE <<>>
                 /\ total' = IF body.total # None THEN body.total[1] ELSE 0
        ELSE /\ plans' = plans /\ total' = total
             /\ page' = page /\ expandedPlan' = expandedPlan
             /\ fetches' \subseteq fetches /\ deletes' = deletes
             /\ logged']_vars

\* C16: the response of a fetch issued for a page that is no longer the
\* current page is discarded, so the items and the total displayed come from
\* a request for the current page.
C16_StaleResponseDiscarded ==
    [][(lastEvent'.op = "fetchPlans" /\ lastEvent'.status = "200")
        => IF lastEvent'.data[1].page = page
           THEN shownFor' = Some(page')
           ELSE plans' = plans /\ total' = total /\ shownFor' = shownFor]_vars

\* C17: while a page fetch is outstanding no delete confirmation is opened
\* and no DELETE request is issued.
C17_NoDeleteWhileFetching ==
    [][lastEvent'.op \in {"openDeleteModal", "handleDeletePlan"}
        => fetches = {}]_vars

\* C18: a DELETE request for plan p is issued only by the confirmation, in a
\* state where the dialog is open on p; cancelling closes the dialog, clears
\* the selection and issues no request.
C18_ConfirmationPrecedesDeletion ==
    [][/\ \A r \in deletes' \ deletes :
              /\ lastEvent'.op = "handleDeletePlan"
              /\ showDeleteModal /\ planToDelete = Some(r.planId)
       /\ lastEvent'.op = "closeDeleteModal"
              => (/\ ~showDeleteModal' /\ planToDelete' = None
                  /\ deletes' = deletes /\ fetches' = fetches)]_vars

C18_Witness ==
    /\ lastEvent.op = "handleDeletePlan"
    /\ showDeleteModal /\ planToDelete # None
    /\ \E r \in deletes : planToDelete = Some(r.planId)

C20_PageRollback ==
    [][(lastEvent'.op = "deletePlan" /\ lastEvent'.status = "200")
        => IF plans = <<lastEvent'.data[1]>> /\ page > 1
           THEN page' = page - 1 /\ \E f \in fetches' \ fetches : f.page = page - 1
           ELSE page' = page]_vars

\* C21: when a DELETE is answered non-2xx or fails at the network level, the
\* continuation leaves items, total, page and expanded plan as they are,
\* issues no request, and logs the error.
C21_DeleteFailure ==
    [][(lastEvent'.op = "deletePlan" /\ lastEvent'.status # "200")
        => (/\ plans' = plans /\ total' = total
            /\ page' = page /\ expandedPlan' = expandedPlan
            /\ fetches' = fetches
            /\ logged')]_vars

C21_Witness ==
    /\ lastEvent.op = "deletePlan" /\ lastEvent.status = "500"
    /\ lastEvent.data[1] \in Displayed
    /\ logged

\* C22: after every completed delete attempt (2xx, non-2xx or network
\* failure) the dialog is closed, the plan-to-delete selection is empty and no
\* plan is marked as being deleted.
C22_DialogClosedAfterDelete ==
    [][lastEvent'.op = "deletePlan"
        => (/\ ~showDeleteModal'
            /\ planToDelete' = None
            /\ deletingPlan' = None
            /\ deletes' = {})]_vars

C22_Witness ==
    /\ lastEvent.op = "deletePlan" /\ lastEvent.status = "threw"
    /\ ~showDeleteModal /\ planToDelete = None /\ deletingPlan = None

\* C23: at most one plan is expanded; toggling B while another plan A is
\* expanded leaves exactly B expanded, toggling A while A is expanded leaves
\* no plan expanded.
C23_SingleExpansion ==
    [][/\ Len(expandedPlan') <= 1
       /\ lastEvent'.op = "togglePlanExpansion"
              => LET b == lastEvent'.data[1]
                 IN  expandedPlan' = IF expandedPlan = Some(b) THEN None
                                     ELSE Some(b)]_vars

C23_Witness ==
    /\ lastEvent.op = "togglePlanExpansion"
    /\ expandedPlan = None
    /\ lastEvent.data[1] \in Displayed

\* C24: the number of pages is ceil(total / per_page) (23 plans, 10 per page:
\* 3 pages) and the current page is always between 1 and max(1, pages); the
\* Next button does nothing on the last page or beyond it.
C24_PageBound ==
    /\ TotalPages(23) = 3
    /\ page >= 1
    /\ page <= (IF TotalPages(total) > 1 THEN TotalPages(total) ELSE 1)

-----------------------------------------------------------------------------
(* Plan Renderer: MealPlanCard *)

MaxDays == 2
MaxIngredients == 5

\* typeof x === 'object'
TypeofObject(x) == x.t \in {"obj", "arr", "null"}

\* x.k; the caller sees to it that x is neither null nor undefined
Prop(x, k) ==
    CASE x.t = "obj" -> IF k \in DOMAIN x.v[1] THEN x.v[1][k] ELSE Undef
      [] x.t \in {"arr", "str"} /\ k = "length" -> Num(Len(x.v))
      [] OTHER -> Undef

\* reading a property of x throws a TypeError
Nullish(x) == x.t \in {"null", "undef"}

\* x > n
GreaterThan(x, n) == x.t = "num" /\ x.v[1] > n

\* x && x.length > 0
NonEmpty(x) == Truthy(x) /\ GreaterThan(Prop(x, "length"), 0)

\* lines 444-445
planDataOf(plan) == IF TypeofObject(plan.plan) THEN plan.plan ELSE Null
groceryDataOf(plan) ==
    IF TypeofObject(plan.grocery_list) THEN plan.grocery_list ELSE Null

\* planData && planData.days, lines 485 and 508
ShowsPlan(pd) == Truthy(pd) /\ Truthy(Prop(pd, "days"))

\* line 493, day.meals ? day.meals.length : 0
MealCount(day) ==
    IF Truthy(Prop(day, "meals")) THEN Prop(Prop(day, "meals"), "length")
    ELSE Num(0)

\* line 493, days.reduce((total, day) => total + ..., 0)
RECURSIVE SumMeals(_)
SumMeals(days) ==
    IF days = <<>> THEN Num(0)
    ELSE LET n == MealCount(Head(days))
             rest == SumMeals(Tail(days))
         IN  IF n.t = "num" /\ rest.t = "num" THEN Num(n.v[1] + rest.v[1])
             ELSE NaN

\* lines 485-502 throw: days has no reduce, or a day is null
QuickStatsThrows(pd) ==
    /\ ShowsPlan(pd)
    /\ LET days == Prop(pd, "days")
       IN  \/ days.t # "arr"
           \/ \E i \in DOMAIN days.v : Nullish(days.v[i])

\* lines 485-502, the quick stats of the header
QuickStats(pd, gd) ==
    IF ShowsPlan(pd)
    THEN Some([days |-> Prop(Prop(pd, "days"), "length"),
               meals |-> SumMeals(Prop(pd, "days").v),
               grocery |-> IF Truthy(gd) THEN Some(Prop(gd, "length")) ELSE None])
    ELSE None

Min(a, b) == IF a < b THEN a ELSE b

\* line 553, the ingredients shown
Truncation == 4

\* the ingredients block without slice(0, 4) and without the indicator
IngredientsView_showsAll(meal) ==
    LET ing == Prop(meal, "ingredients") IN
    IF NonEmpty(ing)
    THEN [shown |-> [i \in 1..Len(ing.v) |-> Prop(ing.v[i], "name")],
          more |-> 0]
    ELSE [shown |-> <<>>, more |-> 0]

\* lines 549-566, the ingredients block of a meal
IngredientsView(meal) ==
    LET ing == Prop(meal, "ingredients") IN
    IF NonEmpty(ing)
    THEN [shown |-> [i \in 1..Min(Truncation, Len(ing.v)) |-> Prop(ing.v[i], "name")],
          more |-> IF Len(ing.v) > Truncation THEN Len(ing.v) - Truncation ELSE 0]
    ELSE [shown |-> <<>>, more |-> 0]

\* lines 525-577 throw: the meal is null, its ingredients have no slice or
\* map, or one of the first four is null
MealThrows(meal) ==
    \/ Nullish(meal)
    \/ LET ing == Prop(meal, "ingredients") IN
       /\ NonEmpty(ing)
       /\ \/ ing.t # "arr"
          \/ \E i \in 1..Min(Truncation, Len(ing.v)) : Nullish(ing.v[i])

\* lines 525-577, one meal of a day
MealView(meal) ==
    [name |-> Prop(meal, "name"),
     shown |-> IngredientsView(meal).shown,
     more |-> IngredientsView(meal).more]

\* lines 519-583 throw: the day is null, its meals have no map, or a meal
\* throws
DayThrows(day) ==
    \/ Nullish(day)
    \/ LET meals == Prop(day, "meals") IN
       /\ NonEmpty(meals)
       /\ \/ meals.t # "arr"
          \/ \E i \in DOMAIN meals.v : MealThrows(meals.v[i])

\* DayView that shows an empty list of meals instead of the message
DayView_noMessage(day) ==
    LET meals == Prop(day, "meals") IN
    IF NonEmpty(meals)
    THEN [noMeals |-> FALSE,
          meals |-> [i \in DOMAIN meals.v |-> MealView(meals.v[i])]]
    ELSE [noMeals |-> FALSE, meals |-> <<>>]

\* lines 519-583, one day: its meals, or "No meals planned for this day"
DayView(day) ==
    LET meals == Prop(day, "meals") IN
    IF NonEmpty(meals)
    THEN [noMeals |-> FALSE,
          meals |-> [i \in DOMAIN meals.v |-> MealView(meals.v[i])]]
    ELSE [noMeals |-> TRUE, meals |-> <<>>]

\* lines 589-615 throw: the grocery list has no map, or an item is null
GroceryThrows(gd) ==
    /\ NonEmpty(gd)
    /\ \/ gd.t # "arr"
       \/ \E i \in DOMAIN gd.v : Nullish(gd.v[i])

\* lines 589-615, the grocery section: absent, or its items
GroceryView(gd) ==
    IF NonEmpty(gd)
    THEN Some([i \in DOMAIN gd.v |-> Prop(gd.v[i], "item")])
    ELSE None

\* the render threw: nothing is shown
Threw == [body |-> "threw", stats |-> None, days |-> <<>>, grocery |-> None]

\* lines 506-627 throw
ContentThrows(pd, gd) ==
    /\ ShowsPlan(pd)
    /\ \/ Prop(pd, "days").t # "arr"
       \/ \E i \in DOMAIN Prop(pd, "days").v : DayThrows(Prop(pd, "days").v[i])
       \/ GroceryThrows(gd)

\* MealPlanCard, lines 442-630: what the card shows, or that rendering threw
MealPlanCard(plan, isExpanded) ==
    LET pd == planDataOf(plan)
        gd == groceryDataOf(plan)
    IN  IF QuickStatsThrows(pd) \/ (isExpanded /\ ContentThrows(pd, gd))
        THEN Threw
        ELSE IF ~isExpanded
        THEN [body |-> "collapsed", stats |-> QuickStats(pd, gd),
              days |-> <<>>, grocery |-> None]
        ELSE IF ShowsPlan(pd)
        THEN [body |-> "content", stats |-> QuickStats(pd, gd),
              days |-> [i \in DOMAIN Prop(pd, "days").v |->
                           DayView(Prop(pd, "days").v[i])],
              grocery |-> GroceryView(gd)]
        ELSE [body |-> "fallback", stats |-> QuickStats(pd, gd),
              days |-> <<>>, grocery |-> None]

\* the untrusted payloads of a plan: ingredients, meals, days, plan and
\* grocery_list in and out of shape
IngredientNames == <<"oats", "milk", "egg", "salt", "rice", "kale", "tofu">>

Ingredients(n) == Arr([i \in 1..n |-> Obj([name |-> Str(<<IngredientNames[i]>>)])])

IngredientPayloads ==
    {Null, Num(3), Str(<<"salt">>), Arr(<<Null>>)}
    \cup {Ingredients(n) : n \in 0..MaxIngredients}

Meal == [type |-> Str(<<"lunch">>), name |-> Str(<<"Soup">>)]

MealPayloads ==
    {Null, Obj(Meal)}
    \cup {Obj([type |-> Meal.type, name |-> Meal.name, ingredients |-> ing]) :
            ing \in IngredientPayloads}

MealsPayloads ==
    {Null, Str(<<"none">>), Arr(<<>>), Arr(<<Obj(Meal), Obj(Meal)>>)}
    \cup {Arr(<<m>>) : m \in MealPayloads}

DayPayloads ==
    {Null, Obj([day |-> Str(<<"Monday">>)])}
    \cup {Obj([day |-> Str(<<"Monday">>), meals |-> m]) : m \in MealsPayloads}

\* the days of plans of several days: null, without meals, with no meal, with
\* two meals
DayShapes ==
    {Null, Obj([day |-> Str(<<"Monday">>)]),
     Obj([day |-> Str(<<"Monday">>), meals |-> Arr(<<>>)]),
     Obj([day |-> Str(<<"Monday">>), meals |-> Arr(<<Obj(Meal), Obj(Meal)>>)])}

DaysPayloads ==
    {<<d>> : d \in DayPayloads}
    \cup UNION {[1..n -> DayShapes] : n \in 0..MaxDays}

Note == [note |-> Str(<<"n/a">>)]

PlanPayloads ==
    {Undef, Null, Str(<<"not-an-object">>), Num(7), Arr(<<>>), Obj(Note),
     Obj([days |-> Null]), Obj([days |-> Num(5)]), Obj([days |-> Str(<<"soon">>)]),
     Obj([days |-> Obj(Note)])}
    \cup {Obj([days |-> Arr(ds)]) : ds \in DaysPayloads}

GroceryItem == Obj([item |-> Str(<<"milk">>), qty |-> Str(<<"1">>)])

GroceryPayloads ==
    {Undef, Null, Str(<<"milk">>), Obj(Note), Arr(<<>>), Arr(<<Null>>),
     Arr(<<GroceryItem>>), Arr(<<GroceryItem, GroceryItem>>)}

CardPlans == [plan : PlanPayloads, grocery_list : GroceryPayloads]

\* fetchPlans answered 2xx with one plan, lines 304-312, and the render of
\* its card (685-687): collapsed unless it is the expanded plan
fetchPlansCard(p) ==
    \E r \in fetches :
        /\ cardView = NotRendered
        /\ plans' = <<1>>
        /\ total' = 1
        /\ shownFor' = Some(r.page)
        /\ plansLoading' = FALSE
        /\ fetches' = fetches \ {r}
        /\ logged' = FALSE
        /\ cardPlan' = p
        /\ cardExpanded' = (expandedPlan = Some(1))
        /\ cardView' = MealPlanCard(p, cardExpanded')
        /\ lastEvent' = Event("fetchPlans", "200", None)
        /\ UNCHANGED <<clientVars, prefVars, page, expandedPlan, deletingPlan,
                       showDeleteModal, planToDelete, deletes, deleted>>

\* togglePlanExpansion, lines 374-376, and the render of the card; after a
\* render that threw there is no card to click
togglePlanExpansionCard ==
    /\ ListShown
    /\ cardView.body \in {"collapsed", "content", "fallback"}
    /\ expandedPlan' = IF expandedPlan = Some(1) THEN None ELSE Some(1)
    /\ cardExpanded' = (expandedPlan' = Some(1))
    /\ cardView' = MealPlanCard(cardPlan, cardExpanded')
    /\ logged' = FALSE
    /\ lastEvent' = Event("togglePlanExpansion", "-", Some(1))
    /\ UNCHANGED <<clientVars, plans, plansLoading, page, total, deletingPlan,
                   showDeleteModal, planToDelete, fetches, deletes, shownFor,
                   deleted, cardPlan, prefVars>>

NextRender ==
    \/ \E p \in CardPlans : fetchPlansCard(p)
    \/ togglePlanExpansionCard

SpecRender == InitPlans /\ [][NextRender]_vars

\* C25: the renderer never throws, whatever the plan and grocery_list of the
\* card are, collapsed or expanded.
C25_RendererNeverThrows ==
    cardView.body # "threw"

\* the plan is an object with a days sequence
HasDaysSequence(x) ==
    x.t = "obj" /\ "days" \in DOMAIN x.v[1] /\ x.v[1].days.t = "arr"

\* C26: the expanded card shows the plan's content exactly when the plan is
\* an object that has a days sequence, and for every other payload it shows
\* the "details unavailable" fallback.
C26_ShapeGuard ==
    cardView.body # "none" =>
        /\ cardView.body = "content" => HasDaysSequence(cardPlan.plan)
        /\ HasDaysSequence(cardPlan.plan) =>
               cardView.body = IF cardExpanded THEN "content" ELSE "collapsed"
        /\ ~HasDaysSequence(cardPlan.plan) =>
               cardView.body = IF cardExpanded THEN "fallback" ELSE "collapsed"

\* a plan in shape: days of day objects whose meals are absent or a sequence
\* of meal objects with ingredients absent or a sequence of objects, and a
\* grocery list absent or a sequence of objects
InShape(seq, Ok(_)) == seq.t = "arr" /\ \A i \in DOMAIN seq.v : Ok(seq.v[i])
MealInShape(m) ==
    /\ m.t = "obj"
    /\ "ingredients" \in DOMAIN m.v[1]
           => InShape(m.v[1].ingredients, LAMBDA g : g.t = "obj")
DayInShape(d) ==
    /\ d.t = "obj"
    /\ "meals" \in DOMAIN d.v[1] => InShape(d.v[1].meals, MealInShape)
WellFormed(plan) ==
    /\ HasDaysSequence(plan.plan)
    /\ InShape(plan.plan.v[1].days, DayInShape)
    /\ \/ Nullish(plan.grocery_list)
       \/ InShape(plan.grocery_list, LAMBDA g : g.t = "obj")

\* C27: in the expanded card of a well-formed plan every day is rendered,
\* with the "No meals planned for this day" message if its meals are absent
\* or empty and with one entry per meal otherwise.
C27_DayRendering ==
    (cardView.body # "none" /\ cardExpanded /\ WellFormed(cardPlan)) =>
        LET days == cardPlan.plan.v[1].days.v IN
        /\ cardView.body = "content"
        /\ Len(cardView.days) = Len(days)
        /\ \A i \in DOMAIN days :
               LET d == days[i].v[1]
                   n == IF "meals" \in DOMAIN d THEN Len(d.meals.v) ELSE 0
               IN  /\ cardView.days[i].noMeals <=> n = 0
                   /\ Len(cardView.days[i].meals) = n

C27_Witness ==
    /\ cardExpanded /\ WellFormed(cardPlan)
    /\ Len(cardView.days) = 2
    /\ cardView.days[1].noMeals
    /\ Len(cardView.days[2].meals) = 2


-----------------------------------------------------------------------------
(* Credential freshness, bootstrap and the login form: properties *)

verifyToken ==
    \/ \E a \in Answers, d \in UserData : VerifyOk(a, d)
    \/ \E a \in Answers : VerifyRejected(a)
    \/ \E a \in Answers : VerifyThrows(a)

InitBoot ==
    /\ storage \in {None} \cup {Some(t) : t \in Tokens}
    /\ user = None
    /\ loading = TRUE
    /\ ctxToken = storage
    /\ boot = "effect"
    /\ verifyReq = None
    /\ verifyCount = 0
    /\ authReqs = {}
    /\ authResult = None
    /\ isLogin = TRUE
    /\ formLoading = FALSE
    /\ formError = ""
    /\ screen = "spinner"
    /\ route = "home"
    /\ genLoading = TRUE
    /\ genPrefs = Null
    /\ generating = FALSE
    /\ genMessage = ""
    /\ overrides = InitialOverrides
    /\ settings = None
    /\ reqs = {}
    /\ redirects = 0
    /\ PlansState({})
    /\ NoCard
    /\ PreferencesState({})
    /\ lastEvent = UserEvent("start")

NextBoot ==
    \/ BootstrapEffect
    \/ verifyToken
    \/ \E u \in Usernames : handleSubmit(u)
    \/ \E b \in BOOLEAN : setIsLogin(b)
    \/ \E a \in Answers : login(a)
    \/ \E a \in Answers : register(a)
    \/ logout

SpecBoot ==
    /\ InitBoot
    /\ [][NextBoot]_vars
    /\ WF_vars(BootstrapEffect)
    /\ WF_vars(verifyToken)

\* C29: from one process start bootstrap issues at most one verification
\* request, none when no credential is persisted and exactly one otherwise
\* (never a retry); the session store eventually leaves loading, and once
\* loading is false it never becomes true again.
C29_BootstrapOnce ==
    /\ [](verifyCount <= 1)
    /\ [](storage = None /\ boot = "effect" => verifyCount = 0 /\ verifyReq = None)
    /\ [][verifyCount' # verifyCount =>
              (boot = "effect" /\ storage # None /\ verifyReq' = storage)]_vars
    /\ [][boot = "effect" /\ storage = None => verifyCount' = 0]_vars
    /\ [][~loading => ~loading']_vars
    /\ <>[](~loading)

C29_Witness ==
    /\ lastEvent.op = "verify"
    /\ boot = "resolved" /\ ~loading
    /\ verifyCount = 1

\* C30: the login form serializes authentication calls: at most one login or
\* register request is outstanding, and while one is the form is loading,
\* which disables its submit button.
C30_AuthCallsSerialized ==
    /\ Cardinality(authReqs) <= 1
    /\ authReqs # {} => (formLoading /\ screen = "login")

C30_Witness ==
    /\ lastEvent.op = "submit"
    /\ formLoading
    /\ Cardinality(authReqs) = 1

-----------------------------------------------------------------------------
(* Generation, session frame and identity: properties *)

GenerateRequests(rs) == {r \in rs : r.kind = "generate"}

\* C32: generation is never optimistic: the success message and the scheduled
\* navigation to the meal-plan list come only with a 2xx answer to the
\* generation request; a non-2xx answer or a failure shows the error message
\* of the mounted view and schedules no navigation; and no second generation
\* request is issued while one is outstanding.
C32_GenerationNeverOptimistic ==
    [][LET answered == lastEvent'.op = "generateAnswered"
           ok == lastEvent'.status = "200"
           toView == \E r \in GenerateRequests(reqs) : r.live /\ r \notin reqs'
       IN  /\ redirects' > redirects => (answered /\ ok)
           /\ (genMessage' = "success" /\ genMessage # "success") => (answered /\ ok)
           /\ (answered /\ ~ok) =>
                  (redirects' = redirects /\ (toView => genMessage' = "error"))
           /\ (\E r \in GenerateRequests(reqs') \ reqs : r.live) =>
                  GenerateRequests(reqs) = {}]_vars

\* C38: in every reachable state an identity that is present comes with a
\* persisted credential, whatever the interleaving of bootstrap verification,
\* login, register and logout.
C38_IdentityImpliesCredential ==
    user # None => (storage # None /\ ctxToken = storage)

C38_Witness ==
    /\ lastEvent.op \in AuthOps /\ lastEvent.status = "200"
    /\ user # None /\ storage # None

-----------------------------------------------------------------------------
(* Deletion against concurrent fetches, and the dialog: properties *)

\* the MealPlans view against a server whose deletions are observed: a fetch
\* issued after a plan was deleted is not answered with that plan
InitStale == MealPlansMounted(Some({}))

NextStale ==
    \/ \E a \in Answers : fetchPlans(a)
    \/ PreviousPage
    \/ \E n \in 1..5 : PageNumber(n)
    \/ NextPage
    \/ \E id \in PlanIds : openDeleteModal(id)
    \/ closeDeleteModal
    \/ handleDeletePlan
    \/ \E a \in Answers : deletePlanAnswered(a)

SpecStale == InitStale /\ [][NextStale]_vars

\* C36: a plan whose DELETE was answered 2xx is in the displayed items of no
\* later state, a page fetch that was issued before the deletion and is
\* answered after it included.
C36_DeletedPlanNeverReappears ==
    \A p \in Deleted : p \notin Displayed

-----------------------------------------------------------------------------
(* Plan renderer: ingredients and grocery list *)

\* the ingredients of a meal in shape, none if the field is absent
IngredientsOf(m) ==
    IF "ingredients" \in DOMAIN m.v[1] THEN m.v[1].ingredients.v ELSE <<>>

\* C34: for a meal with n ingredients the expanded card of a well-formed plan
\* shows the names of the first min(n, 4) ingredients in their order and a
\* "+N more" indicator with N = n - 4 exactly when n > 4 (more = 0 stands for
\* no indicator), and rendering leaves the plan it was given as it is.
C34_IngredientTruncation ==
    /\ []((cardView.body # "none" /\ cardExpanded /\ WellFormed(cardPlan)) =>
            LET days == cardPlan.plan.v[1].days.v IN
            \A i \in DOMAIN days : \A j \in DOMAIN cardView.days[i].meals :
                LET ing == IngredientsOf(days[i].v[1].meals.v[j])
                    n == Len(ing)
                    shown == cardView.days[i].meals[j].shown
                    more == cardView.days[i].meals[j].more
                IN  /\ Len(shown) = Min(n, 4)
                    /\ \A k \in DOMAIN shown : shown[k] = Prop(ing[k], "name")
                    /\ more > 0 <=> n > 4
                    /\ more > 0 => more = n - 4)
    /\ [][cardView # NotRendered => cardPlan' = cardPlan]_vars

C34_Witness ==
    /\ cardExpanded /\ WellFormed(cardPlan)
    /\ lastEvent.op = "togglePlanExpansion"
    /\ \E i \in DOMAIN cardView.days : \E j \in DOMAIN cardView.days[i].meals :
           /\ Len(cardView.days[i].meals[j].shown) = 4
           /\ cardView.days[i].meals[j].more = 1
           /\ Len(IngredientsOf(cardPlan.plan.v[1].days.v[i].v[1].meals.v[j])) = 5

\* C35: the expanded card renders the grocery section if and only if the
\* grocery list is a sequence with at least one item; an absent, null,
\* malformed or empty grocery list gives no grocery section.
C35_GrocerySection ==
    (cardView.body # "none" /\ cardExpanded) =>
        (cardView.grocery # None <=>
            (cardPlan.grocery_list.t = "arr" /\ Len(cardPlan.grocery_list.v) >= 1))

-----------------------------------------------------------------------------
(* Preferences view *)

NumToggled == 3

\* Preferences.jsx:22-27, the values of mealTypeOptions
MealTypeOptions == <<"breakfast", "lunch", "dinner", "snack">>

\* the options the user clicks
ToggledTypes == {MealTypeOptions[i] : i \in 1..Min(NumToggled, Len(MealTypeOptions))}

\* Array.prototype.join(sep) on pieces of lexemes
RECURSIVE Join(_, _)
Join(ps, sep) ==
    IF ps = <<>> THEN <<>>
    ELSE IF Len(ps) = 1 THEN Head(ps)
    ELSE Head(ps) \o <<sep>> \o Join(Tail(ps), sep)

\* Array.prototype.includes
Includes(ps, x) == \E i \in DOMAIN ps : ps[i] = x

\* handleMealTypeChange that appends the type whether or not it is there
MealTypesToggled_alwaysAdds(mealTypes, mealType) ==
    Str(Join(Append(FilterTrimmed(Split(mealTypes.v, ",")), <<mealType>>), ","))

\* handleMealTypeChange, lines 105-119: the new value of meal_types
MealTypesToggled(mealTypes, mealType) ==
    LET currentTypes == FilterTrimmed(Split(mealTypes.v, ","))
        newTypes == IF Includes(currentTypes, <<mealType>>)
                    THEN SelectSeq(currentTypes, LAMBDA t : t # <<mealType>>)
                    ELSE Append(currentTypes, <<mealType>>)
    IN  Str(Join(newTypes, ","))

\* isMealTypeSelected, lines 121-123
isMealTypeSelected(mealTypes, mealType) ==
    Includes(Split(mealTypes.v, ","), <<mealType>>)

\* the save button is enabled, line 321
CanSave == ~prefSaving /\ Trim(prefValues.meal_types.v) # <<>>

\* the preferences GET /preferences may carry: none, every field set, every
\* field empty or zero, meal types with an empty entry
SavedForView ==
    {Null,
     Prefs(Str(<<"Vegan">>), Str(<<"50">>), Num(5), Str(<<"lunch", ",", "snack">>),
           Str(<<"no nuts">>)),
     Prefs(EmptyStr, EmptyStr, Num(0), EmptyStr, EmptyStr),
     Prefs(EmptyStr, EmptyStr, Num(3), Str(<<",", "lunch">>), EmptyStr)}

\* what every step of the Preferences view leaves alone
PrefsFrame(op, status) ==
    /\ lastEvent' = Event(op, status, None)
    /\ UNCHANGED <<clientVars, planVars, cardVars>>

\* fetchPreferences, lines 54-66: answered 2xx with a JSON body
LoadOk(a, saved) ==
    /\ ResponseOk(a) /\ a.json
    /\ prefValues' =
           IF Truthy(saved)
           THEN [dietary_preferences |-> JsOr(Prop(saved, "dietary_preferences"), EmptyStr),
                 budget |-> JsOr(Prop(saved, "budget"), EmptyStr),
                 days |-> JsOr(Prop(saved, "days"), Num(3)),
                 meal_types |-> JsOr(Prop(saved, "meal_types"),
                                     DefaultPreferences.meal_types),
                 custom_preferences |-> JsOr(Prop(saved, "custom_preferences"), EmptyStr)]
           ELSE prefValues
    /\ UNCHANGED prefMessage
    /\ PrefsFrame("loadPreferences", "200")

\* fetchPreferences, lines 54 and 71-73: answered non-2xx; no branch is taken
LoadNotOk(a) ==
    /\ a # NetErr /\ ~ResponseOk(a)
    /\ UNCHANGED <<prefValues, prefMessage>>
    /\ PrefsFrame("loadPreferences", StatusText(a))

\* fetchPreferences, lines 67-73: fetch or response.json() threw
LoadThrows(a) ==
    /\ a = NetErr \/ (ResponseOk(a) /\ ~a.json)
    /\ prefMessage' = "error"
    /\ UNCHANGED prefValues
    /\ PrefsFrame("loadPreferences", "threw")

\* Preferences.fetchPreferences from its await on
fetchPreferencesView(a) ==
    \E r \in prefReqs :
        /\ r.kind = "load"
        /\ \/ \E saved \in SavedForView : LoadOk(a, saved)
           \/ LoadNotOk(a)
           \/ LoadThrows(a)
        /\ prefLoading' = FALSE
        /\ prefReqs' = prefReqs \ {r}
        /\ UNCHANGED prefSaving

\* what the user enters in the other four fields
FieldInputs ==
    [dietary_preferences |-> {EmptyStr, Str(<<"Keto">>)},
     budget |-> {EmptyStr, Str(<<"80">>)},
     days |-> {Num(3), Num(7)},
     custom_preferences |-> {EmptyStr, Str(<<"no nuts">>)}]

\* the onClick and onChange handlers of lines 173-176, 191-194, 212-215,
\* 231-234 and 280-283: setPreferences(prev => ({...prev, [k]: v}))
setPreferences(k, v) ==
    /\ ~prefLoading
    /\ v # prefValues[k]
    /\ prefValues' = [prefValues EXCEPT ![k] = v]
    /\ PrefsFrame("setPreferences", "-")
    /\ UNCHANGED <<prefLoading, prefSaving, prefMessage, prefReqs>>

\* handleMealTypeChange, lines 105-119, from a meal-type button (255)
handleMealTypeChange(mealType) ==
    /\ ~prefLoading
    /\ prefValues' = [prefValues EXCEPT
                         !.meal_types = MealTypesToggled(prefValues.meal_types, mealType)]
    /\ lastEvent' = Event("handleMealTypeChange", "-", Some(mealType))
    /\ UNCHANGED <<clientVars, planVars, cardVars>>
    /\ UNCHANGED <<prefLoading, prefSaving, prefMessage, prefReqs>>

\* handleSave up to its await, lines 75-88, from the submit button (319-322);
\* the body of the request, the preferences as they are, is not followed
handleSave ==
    /\ ~prefLoading
    /\ CanSave
    /\ prefSaving' = TRUE
    /\ prefMessage' = ""
    /\ prefReqs' = prefReqs \cup {[kind |-> "save", token |-> ctxToken]}
    /\ PrefsFrame("handleSave", "-")
    /\ UNCHANGED <<prefLoading, prefValues>>

\* handleSave that ends the session when the server says 401
SaveSettled_clearsSession(a) ==
    /\ prefMessage' = IF ResponseOk(a) /\ a.json THEN "success" ELSE "error"
    /\ prefSaving' = FALSE
    /\ lastEvent' = Event("savePreferences",
                          IF a.json THEN StatusText(a) ELSE "threw", None)
    /\ storage' = IF a.json /\ StatusText(a) = "401" THEN None ELSE storage
    /\ user' = IF a.json /\ StatusText(a) = "401" THEN None ELSE user
    /\ UNCHANGED <<loading, ctxToken, boot, verifyReq, verifyCount, loginVars,
                   screen, route, genVars, reqs, redirects, planVars, cardVars>>

\* handleSave whose failure branches leave saving set
SaveSettled_keepsSaving(a) ==
    /\ prefMessage' = IF ResponseOk(a) /\ a.json THEN "success" ELSE "error"
    /\ prefSaving' = (~ResponseOk(a) \/ ~a.json)
    /\ PrefsFrame("savePreferences", IF a.json THEN StatusText(a) ELSE "threw")

\* handleSave, lines 90-102: the body is read, then 2xx gives the success
\* message and non-2xx the error message; fetch or response.json() threw
\* gives the error message; finally saving is cleared
SaveSettled(a) ==
    /\ prefMessage' = IF ResponseOk(a) /\ a.json THEN "success" ELSE "error"
    /\ prefSaving' = FALSE
    /\ PrefsFrame("savePreferences", IF a.json THEN StatusText(a) ELSE "threw")

\* handleSave from its await on
handleSaveAnswered(a) ==
    \E r \in prefReqs :
        /\ r.kind = "save"
        /\ SaveSettled(a)
        /\ prefReqs' = prefReqs \ {r}
        /\ UNCHANGED <<prefLoading, prefValues>>

\* the Preferences view, signed in and just mounted: its effect has issued
\* GET /preferences (lines 43-51)
InitPrefs ==
    /\ storage = Some(1)
    /\ user = Some([id |-> 1, username |-> "alice"])
    /\ loading = FALSE
    /\ ctxToken = storage
    /\ boot = "resolved"
    /\ verifyReq = None
    /\ verifyCount = 0
    /\ authReqs = {}
    /\ authResult = Some([success |-> TRUE])
    /\ isLogin = TRUE
    /\ formLoading = FALSE
    /\ formError = ""
    /\ screen = ProtectedRoute(user, loading)
    /\ route = "preferences"
    /\ genLoading = TRUE
    /\ genPrefs = Null
    /\ generating = FALSE
    /\ genMessage = ""
    /\ overrides = InitialOverrides
    /\ settings = None
    /\ reqs = {}
    /\ redirects = 0
    /\ PlansState({})
    /\ NoCard
    /\ PreferencesState({[kind |-> "load", token |-> ctxToken]})
    /\ lastEvent = UserEvent("navigate")

NextPrefs ==
    \/ \E a \in Answers : fetchPreferencesView(a)
    \/ \E k \in DOMAIN FieldInputs : \E v \in FieldInputs[k] : setPreferences(k, v)
    \/ \E t \in ToggledTypes : handleMealTypeChange(t)
    \/ handleSave
    \/ \E a \in Answers : handleSaveAnswered(a)

SpecPrefs == InitPrefs /\ [][NextPrefs]_vars

-----------------------------------------------------------------------------
(* Preferences view: properties *)

\* C33: when PUT /preferences is answered non-2xx or fails at the network
\* level the error message is shown and the five locally held preferences
\* are as the user left them; whatever the answer, saving is false again.
C33_SaveFailure ==
    [][lastEvent'.op = "savePreferences" =>
          /\ prefSaving /\ ~prefSaving'
          /\ prefValues' = prefValues
          /\ lastEvent'.status # "200" => prefMessage' = "error"
          /\ lastEvent'.status = "200" => prefMessage' = "success"]_vars

C33_Witness ==
    /\ lastEvent.op = "savePreferences" /\ lastEvent.status \in {"401", "500", "threw"}
    /\ prefMessage = "error" /\ ~prefSaving
    /\ prefValues.dietary_preferences = Str(<<"Keto">>)
    /\ prefValues.days = Num(7)

\* the set a meal_types string stands for
MealTypeSet(mealTypes) ==
    LET ps == FilterTrimmed(Split(mealTypes.v, ",")) IN {ps[i] : i \in DOMAIN ps}

\* the entries of a meal_types string: none for the empty string, no blank
\* one, no two alike
CleanEntries(mealTypes) ==
    LET ps == Split(mealTypes.v, ",") IN
    \/ mealTypes.v = <<>>
    \/ /\ \A i \in DOMAIN ps : Trim(ps[i]) # <<>>
       /\ \A i, j \in DOMAIN ps : ps[i] = ps[j] => i = j

\* C39: toggling a meal type adds it to the comma-joined set if it is absent
\* and removes it if it is present, so that toggling it twice gives the same
\* set; after a toggle the stored value has no duplicate and no empty entry;
\* and no save request is submitted while the set is empty.
C39_MealTypeToggling ==
    /\ [][lastEvent'.op = "handleMealTypeChange" =>
            LET t == <<lastEvent'.data[1]>>
                old == MealTypeSet(prefValues.meal_types)
                new == MealTypeSet(prefValues'.meal_types)
            IN  /\ new = IF t \in old THEN old \ {t} ELSE old \cup {t}
                /\ isMealTypeSelected(prefValues'.meal_types, lastEvent'.data[1])
                       <=> t \notin old
                /\ MealTypeSet(MealTypesToggled(prefValues'.meal_types,
                                                lastEvent'.data[1])) = old
                /\ CleanEntries(prefValues'.meal_types)]_vars
    /\ [][lastEvent'.op = "handleSave" =>
            MealTypeSet(prefValues.meal_types) # {}]_vars
    /\ [](MealTypeSet(prefValues.meal_types) = {} => ~CanSave)

C39_Witness ==
    /\ lastEvent.op = "handleMealTypeChange"
    /\ prefValues.meal_types = EmptyStr
    /\ ~prefSaving /\ ~CanSave

\* the three views behind the route guard, each signed in and just mounted
InitViews == InitPlans \/ InitResolve \/ InitPrefs

\* the requests of the three views, their continuations, and the clicks that
\* lead to them
NextViews ==
    \/ \E a \in Answers : fetchPlans(a)
    \/ NextPage
    \/ \E id \in PlanIds : openDeleteModal(id)
    \/ handleDeletePlan
    \/ \E a \in Answers : deletePlanAnswered(a)
    \/ NextGenerate
    \/ NextPrefs

SpecViews == InitViews /\ [][NextViews]_vars

\* C31: only the session store writes the session: every operation of the
\* other components (fetching a page, deleting, getting and saving
\* preferences, generating), whatever its outcome, leaves the persisted
\* credential and the identity as they are.
C31_OnlySessionStoreWritesSession ==
    [][storage' = storage /\ user' = user]_vars

C31_Witness ==
    /\ lastEvent.op = "savePreferences" /\ lastEvent.status = "401"
    /\ storage = Some(1) /\ user # None

=============================================================================
